---- MODULE Spec2Model ----
(***************************************************************************)
(* A model of des.py (Nexus tracker): the spreadsheet store, the cached    *)
(* load_data, save_entry_google, the analytics functions and the script    *)
(* run of main().                                                          *)
(*                                                                         *)
(* Numbers are integers.  A spreadsheet cell is a tagged value: a number,  *)
(* an ISO date string, or a text that parses as neither.  A DataFrame is a *)
(* sequence of records (its rows, in index order); the empty DataFrame is  *)
(* the empty sequence.  A mean is kept as the fraction sum/count and       *)
(* compared by cross-multiplication, which is exact for a mean compared    *)
(* with a goal; the two means of the improvement test, compared after an   *)
(* addition, are float64 values.  The Observacoes text is carried in the   *)
(* sheet but not in the rows of the DataFrame: no analytics reads it.      *)
(***************************************************************************)
EXTENDS Integers, Sequences, FiniteSets, TLC

VARIABLES
    sheet,            \* the worksheet: [header : Seq(STRING), rows : Seq(Seq(cell))]
    cache,            \* st.cache_data entry of load_data: [valid, df]
    has_df,           \* 'df' in st.session_state
    session_df,       \* st.session_state.df
    metas,            \* st.session_state.metas
    periodo,          \* the sidebar selectbox
    row,              \* the row last built by save_entry_google (<<>>: none yet)
    salvo,            \* what save_entry_google returned in this run (<<>>: not called)
    pontos,           \* sidebar: points of calcular_pontos_recompensa
    conquistas,       \* sidebar: achievements of calcular_pontos_recompensa
    df,               \* main(): the period-filtered frame
    df_analise,       \* main(): the frame calcular_metricas_avancadas returns
    matriz_correlacao,\* main(): its correlation matrix (<<>>: None)
    Media_Movel_7,    \* df_analise['Media_Movel_7'], one fraction per row of df
    importancia,      \* tab 1: result of analisar_fatores_influencia (<<>>: None)
    tendencia,        \* tab 1: label of previsao_tendencia (<<>>: not rendered)
    resultados,       \* tab 3: result of verificar_metas (<<>>: not rendered)
    sequencia_atual   \* tab 3: the current streak (<<>>: not rendered)

vars == <<sheet, cache, has_df, session_df, metas, periodo, row, salvo, pontos,
          conquistas, df, df_analise, matriz_correlacao, Media_Movel_7,
          importancia, tendencia, resultados, sequencia_atual>>

-----------------------------------------------------------------------------
(* Bounds of the model *)

\* rows the sheet may hold in the application specification
MaxRows == 3
\* length of the stored histories the series specification starts from
MaxHist == 7
\* length of the stored histories with varied scores
MaxTail == 5
\* length of the stored histories of the two-week comparison
MaxWeeks == 15
\* rows of the sheets that other hands have written
MaxRaw == 2
\* length of the stored histories that hold two records of one day
MaxSort == 18

-----------------------------------------------------------------------------
(* Cells and the worksheet *)

Num(n) == [t |-> "n", v |-> n]
DateStr(d) == [t |-> "d", v |-> d]
Txt == [t |-> "s", v |-> 0]

\* date.today(), as a day number
Hoje == 100

\* pd.NaT in the Data column
NaT == -1

cols == <<"Data", "Estudo_min", "Organizacao", "Treino_min", "Bem_estar",
          "Sono_h", "Nutricao", "Motivacao", "Relacoes", "Score_diario",
          "Observacoes">>

numeric_cols == <<"Estudo_min", "Organizacao", "Treino_min", "Bem_estar",
                  "Sono_h", "Nutricao", "Motivacao", "Relacoes", "Score_diario">>

RECURSIVE Sum(_)
Sum(s) == IF s = <<>> THEN 0 ELSE Head(s) + Sum(Tail(s))

Coluna(d, c) == [i \in 1..Len(d) |-> d[i][c]]

tail(s, n) == IF Len(s) <= n THEN s ELSE SubSeq(s, Len(s) - n + 1, Len(s))

mean(s) == [n |-> Sum(s), d |-> Len(s)]

-----------------------------------------------------------------------------
(* float64 arithmetic of a mean that is compared after an addition.         *)
(* A non-negative double is kept as its integer part i and the bits f of   *)
(* its fraction (most significant first): the value is i + 0.f in binary,  *)
(* rounded to 53 significant bits, ties to even.                           *)

\* the number of bits of q >= 0
RECURSIVE BitLen(_)
BitLen(q) == IF q = 0 THEN 0 ELSE 1 + BitLen(q \div 2)

\* for 0 < s < n: the number of zero bits that open the fraction of s/n
RECURSIVE LeadingZeros(_, _)
LeadingZeros(s, n) == IF 2 * s >= n THEN 0 ELSE 1 + LeadingZeros(2 * s, n)

\* the first k bits of the fraction r/n, r < n, by long division
RECURSIVE FracBits(_, _, _)
FracBits(r, n, k) ==
    IF k = 0 THEN <<>> ELSE <<(2 * r) \div n>> \o FracBits((2 * r) % n, n, k - 1)

\* the remainder of that division after k bits
RECURSIVE FracRem(_, _, _)
FracRem(r, n, k) == IF k = 0 THEN r ELSE FracRem((2 * r) % n, n, k - 1)

\* the fraction bits a double of integer part i keeps (s/n when i = 0)
FracLen(i, s, n) == IF i > 0 THEN 53 - BitLen(i) ELSE 53 + LeadingZeros(s, n)

\* bits + 1, some bit being 0
Inc(bits) ==
    LET p == CHOOSE j \in 1..Len(bits) :
                bits[j] = 0 /\ \A k \in (j + 1)..Len(bits) : bits[k] = 1
    IN  [j \in 1..Len(bits) |-> IF j < p THEN bits[j] ELSE IF j = p THEN 1 ELSE 0]

\* round to nearest, ties to even: rb is the first bit dropped, sticky tells
\* whether a later one is set
Round(i, kept, rb, sticky) ==
    LET last == IF kept = <<>> THEN i % 2 ELSE kept[Len(kept)]
    IN  IF ~(rb = 1 /\ (sticky \/ last = 1)) THEN [i |-> i, f |-> kept]
        ELSE IF \A j \in 1..Len(kept) : kept[j] = 1
             THEN [i |-> i + 1, f |-> [j \in 1..Len(kept) |-> 0]]
        ELSE [i |-> i, f |-> Inc(kept)]

\* the_sum / count of Series.mean(), s >= 0 and n > 0 integers
float_div(s, n) ==
    IF s % n = 0 THEN [i |-> s \div n, f |-> <<>>]
    ELSE LET q == s \div n
             r == s % n
             F == FracLen(q, s, n)
             rem == FracRem(r, n, F)
         IN  Round(q, FracBits(r, n, F), (2 * rem) \div n, (2 * rem) % n # 0)

\* x + k for an integer k >= 0
float_add(x, k) ==
    LET i2 == x.i + k
        F == 53 - BitLen(i2)
    IN  IF k = 0 \/ Len(x.f) <= F THEN [i |-> i2, f |-> x.f]
        ELSE Round(i2, SubSeq(x.f, 1, F), x.f[F + 1],
                   \E j \in (F + 2)..Len(x.f) : x.f[j] = 1)

BitAt(f, j) == IF j <= Len(f) THEN f[j] ELSE 0

\* a > b
float_gt(a, b) ==
    \/ a.i > b.i
    \/ /\ a.i = b.i
       /\ \E j \in 1..(Len(a.f) + Len(b.f)) :
            /\ BitAt(a.f, j) = 1
            /\ BitAt(b.f, j) = 0
            /\ \A k \in 1..(j - 1) : BitAt(a.f, k) = BitAt(b.f, k)

-----------------------------------------------------------------------------
(* save_entry_google *)

SliderMin == 1
SliderMax == 10

nota_org_swapped(data_dict) == IF data_dict.Organizacao = 1 THEN 0 ELSE 10

nota_org(data_dict) == IF data_dict.Organizacao = 1 THEN 10 ELSE 0

soma_fatores(data_dict) ==
    data_dict.Bem_estar + data_dict.Nutricao + data_dict.Motivacao
        + data_dict.Relacoes + nota_org(data_dict)

min(a, b) == IF a <= b THEN a ELSE b

score_auto_triple_uncapped(data_dict) == soma_fatores(data_dict) * 3

score_auto_partial_credit(data_dict) ==
    min((soma_fatores(data_dict)
            + (IF data_dict.Organizacao = 1 THEN 0 ELSE 5)) * 2, 100)

score_auto(data_dict) == min(soma_fatores(data_dict) * 2, 100)

\* the list handed to sheet.append_row
BuildRow(data_dict) ==
    << DateStr(data_dict.Data), Num(data_dict.Estudo_min),
       Num(data_dict.Organizacao), Num(data_dict.Treino_min),
       Num(data_dict.Bem_estar), Num(data_dict.Sono_h),
       Num(data_dict.Nutricao), Num(data_dict.Motivacao),
       Num(data_dict.Relacoes), Num(score_auto(data_dict)), Txt >>

append_row(sh, r) == [sh EXCEPT !.rows = Append(@, r)]

-----------------------------------------------------------------------------
(* load_data *)

\* sheet.get_all_records(): one dict per data row, keyed by the header (the
\* first row of the worksheet, which the model keeps apart from the data rows);
\* a row shorter than the header reads '' in the missing cells
HeaderPos(h, c) == CHOOSE i \in 1..Len(h) : h[i] = c /\ \A j \in 1..(i-1) : h[j] # c

InHeader(h, c) == \E i \in 1..Len(h) : h[i] = c

get_all_records(sh) ==
    [k \in 1..Len(sh.rows) |->
        [i \in 1..Len(sh.header) |->
            IF i <= Len(sh.rows[k]) THEN sh.rows[k][i] ELSE Txt]]

\* df.rename(columns={"Estudo_h": "Estudo_min"})
Rename(h) == [i \in 1..Len(h) |-> IF h[i] = "Estudo_h" THEN "Estudo_min" ELSE h[i]]

Count(h, c) == Cardinality({i \in 1..Len(h) : h[i] = c})

\* pd.to_datetime(..., errors='coerce').dt.date
to_date(cell) == IF cell.t = "d" THEN cell.v ELSE NaT

\* pd.to_numeric(..., errors='coerce').fillna(0.0)
to_numeric(cell) == IF cell.t = "n" THEN cell.v ELSE 0

\* where each column of the frame is read from (0: the column is missing)
Positions(h) ==
    [c \in {cols[i] : i \in 1..10} |-> IF InHeader(h, c) THEN HeaderPos(h, c) ELSE 0]

\* one row of the typed frame: Data parsed, a missing numeric column set to 0,
\* every numeric column coerced
Typed(pos, rec) ==
    [c \in DOMAIN pos |->
        IF c = "Data" THEN to_date(rec[pos[c]])
        ELSE IF pos[c] # 0 THEN to_numeric(rec[pos[c]])
        ELSE 0]

\* df.sort_values(by="Data") with its default kind='quicksort': the rows whose
\* date is not NaT in the order of numpy's argsort of their dates, then the NaT
\* rows as they were.  That argsort is numpy's quicksort: a range of more than
\* SMALL_QUICKSORT + 1 elements is partitioned around the median of its first,
\* middle and last element, a shorter one is sorted by insertion.  (Its
\* fall-back to heapsort after 2 * log2(n) nested partitions is not reached by
\* frames of this size.)
SMALL_QUICKSORT == 16

\* insertion sort: an element moves left past the strictly greater ones only
RECURSIVE InsertByData(_, _)
InsertByData(s, r) ==
    IF s = <<>> THEN <<r>>
    ELSE IF s[Len(s)].Data <= r.Data THEN Append(s, r)
    ELSE Append(InsertByData(SubSeq(s, 1, Len(s) - 1), r), s[Len(s)])

RECURSIVE SortAsc(_)
SortAsc(s) ==
    IF s = <<>> THEN <<>>
    ELSE InsertByData(SortAsc(SubSeq(s, 1, Len(s) - 1)), s[Len(s)])

\* INTP_SWAP
Swap(t, i, j) == [t EXCEPT ![i] = t[j], ![j] = t[i]]

\* the three conditional swaps that leave the median in the middle
MedianOf3(t) ==
    LET pl == 1
        pr == Len(t)
        pm == pl + (pr - pl) \div 2
        t1 == IF t[pm].Data < t[pl].Data THEN Swap(t, pm, pl) ELSE t
        t2 == IF t1[pr].Data < t1[pm].Data THEN Swap(t1, pr, pm) ELSE t1
    IN  IF t2[pm].Data < t2[pl].Data THEN Swap(t2, pm, pl) ELSE t2

\* the scan of the partition: pi moves right to the next element not below the
\* pivot vp, pj moves left to the next one not above it, the two are swapped
\* until the indices meet; the result is the sequence and the meeting point
RECURSIVE Partition(_, _, _, _)
Partition(t, vp, pi, pj) ==
    LET i == CHOOSE k \in (pi + 1)..Len(t) :
                ~(t[k].Data < vp) /\ \A m \in (pi + 1)..(k - 1) : t[m].Data < vp
        j == CHOOSE k \in 1..(pj - 1) :
                ~(vp < t[k].Data) /\ \A m \in (k + 1)..(pj - 1) : vp < t[m].Data
    IN  IF i >= j THEN [t |-> t, pi |-> i]
        ELSE Partition(Swap(t, i, j), vp, i, j)

RECURSIVE aquicksort(_)
aquicksort(t) ==
    IF Len(t) - 1 <= SMALL_QUICKSORT THEN SortAsc(t)
    ELSE LET pr == Len(t)
             pm == 1 + (pr - 1) \div 2
             t3 == MedianOf3(t)
             P == Partition(Swap(t3, pm, pr - 1), t3[pm].Data, 1, pr - 1)
             t4 == Swap(P.t, P.pi, pr - 1)
         IN  aquicksort(SubSeq(t4, 1, P.pi - 1)) \o <<t4[P.pi]>>
                \o aquicksort(SubSeq(t4, P.pi + 1, pr))

sort_values(d) ==
    aquicksort(SelectSeq(d, LAMBDA r : r.Data # NaT))
        \o SelectSeq(d, LAMBDA r : r.Data = NaT)

\* the body of load_data; ok = FALSE: the connection or the read raises
load_data_body(sh, ok) ==
    IF ~ok THEN <<>>
    ELSE LET data == get_all_records(sh)
             h    == Rename(sh.header)
         IN  IF data = <<>> THEN <<>>
             ELSE IF ~InHeader(h, "Data") THEN <<>>
             ELSE IF \E i \in 1..9 : Count(h, numeric_cols[i]) > 1 THEN <<>>
             ELSE LET pos == Positions(h)
                  IN  sort_values([k \in 1..Len(data) |-> Typed(pos, data[k])])

\* @st.cache_data(ttl=60): a valid entry is returned without running the body
load_data(c, sh, ok) ==
    IF c.valid THEN [df |-> c.df, cache |-> c]
    ELSE LET d == load_data_body(sh, ok)
         IN  [df |-> d, cache |-> [valid |-> TRUE, df |-> d]]

-----------------------------------------------------------------------------
(* calcular_metricas_avancadas: the rolling mean of the score *)

\* the undefined value of a window with fewer than min_periods observations
NaN == [n |-> 0, d |-> 0]

\* the window sum as pandas keeps it: add the entering value, remove the leaving one
RECURSIVE RollSum(_, _, _)
RollSum(s, window, i) ==
    IF i = 0 THEN 0
    ELSE RollSum(s, window, i - 1) + s[i] - (IF i > window THEN s[i - window] ELSE 0)

rolling_mean(s, window, min_periods) ==
    [i \in 1..Len(s) |->
        LET nobs == min(i, window)
        IN  IF nobs >= min_periods THEN [n |-> RollSum(s, window, i), d |-> nobs]
            ELSE NaN]

Media_Movel_7_default_min_periods(d) == rolling_mean(Coluna(d, "Score_diario"), 7, 7)

\* df_analise['Score_diario'].rolling(7, min_periods=1).mean()
calcular_Media_Movel_7(d) == rolling_mean(Coluna(d, "Score_diario"), 7, 1)

\* .map({0: 'Segunda', ...})
Dia_Semana_map ==
    <<"Segunda", "Terca", "Quarta", "Quinta", "Sexta", "Sabado", "Domingo">>

metricas_correlacao ==
    <<"Estudo_min", "Sono_h", "Treino_min", "Bem_estar", "Nutricao", "Motivacao",
      "Relacoes", "Score_diario">>

\* the columns the function assigns in row i of the copy (an assignment replaces
\* a column of that name); a value that may be NaN is <<>> for NaN and <<v>>
\* otherwise; day 0 is a Monday
Derivadas(d, mm, i) ==
    [Media_Movel_7 |-> mm[i],
     Tendencia_Score |->
        IF i = 1 THEN <<>> ELSE <<d[i].Score_diario - d[i - 1].Score_diario>>,
     Dia_Semana_Num |-> IF d[i].Data = NaT THEN <<>> ELSE <<d[i].Data % 7>>,
     Dia_Semana |->
        IF d[i].Data = NaT THEN <<>> ELSE <<Dia_Semana_map[(d[i].Data % 7) + 1]>>]

\* the same function without df.copy(): the columns are added to the argument
calcular_metricas_avancadas_inplace(d) ==
    IF Len(d) = 0 THEN [df |-> d, df_analise |-> d, matriz_correlacao |-> <<>>]
    ELSE LET mm == calcular_Media_Movel_7(d)
             df_analise_ == [i \in 1..Len(d) |-> Derivadas(d, mm, i) @@ d[i]]
         IN  [df |-> df_analise_, df_analise |-> df_analise_,
              matriz_correlacao |-> <<metricas_correlacao>>]

\* df is the argument as the call leaves it, df_analise and matriz_correlacao
\* are the values returned; of the matrix only its columns are kept (every
\* metric is a column of a loaded frame)
calcular_metricas_avancadas(d) ==
    IF Len(d) = 0 THEN [df |-> d, df_analise |-> d, matriz_correlacao |-> <<>>]
    ELSE LET mm == calcular_Media_Movel_7(d)
         IN  [df |-> d,
              df_analise |-> [i \in 1..Len(d) |-> Derivadas(d, mm, i) @@ d[i]],
              matriz_correlacao |-> <<metricas_correlacao>>]

-----------------------------------------------------------------------------
(* calcular_pontos_recompensa *)

CONSISTENCIA == "7 dias consecutivos com score >=70"
MELHORIA == "Melhoria consistente nas ultimas 2 semanas"
ESTUDO == "+10000 minutos de estudo acumulado"
TREINO == "+3000 minutos de treino acumulado"
ORGANIZADO == "+30 dias organizados"

\* (ultimos_7['Score_diario'] >= 70).sum()
dias_consecutivos_strict(d) ==
    LET ultimos_7 == tail(d, 7)
    IN  Cardinality({i \in 1..Len(ultimos_7) : ultimos_7[i].Score_diario > 70})

dias_consecutivos(d) ==
    LET ultimos_7 == tail(d, 7)
    IN  Cardinality({i \in 1..Len(ultimos_7) : ultimos_7[i].Score_diario >= 70})

\* Series.mean() as a double; a negative sum, which the float operators do
\* not cover, is None here
mean_f64(s) == IF Sum(s) >= 0 THEN <<float_div(Sum(s), Len(s))>> ELSE <<>>

\* media_segunda_semana > media_primeira_semana + 5, in float64 (compared
\* exactly when a sum is negative)
melhoria(primeira, segunda) ==
    LET media_primeira_semana == mean_f64(primeira)
        media_segunda_semana == mean_f64(segunda)
    IN  IF media_primeira_semana # <<>> /\ media_segunda_semana # <<>>
        THEN float_gt(media_segunda_semana[1], float_add(media_primeira_semana[1], 5))
        ELSE Sum(segunda) * Len(primeira) > (Sum(primeira) + 5 * Len(primeira)) * Len(segunda)

\* the (bonus, achievement) pairs in the order the function appends them
Premios(d) ==
    LET scores == Coluna(d, "Score_diario")
        n == Len(d)
    IN  (IF n >= 7 /\ dias_consecutivos(d) >= 7
            THEN << <<100, CONSISTENCIA>> >> ELSE <<>>)
     \o (IF n >= 14 /\ melhoria(SubSeq(scores, n - 13, n - 7), SubSeq(scores, n - 6, n))
            THEN << <<50, MELHORIA>> >> ELSE <<>>)
     \o (IF Sum(Coluna(d, "Estudo_min")) > 10000
            THEN << <<50, ESTUDO>> >> ELSE <<>>)
     \o (IF Sum(Coluna(d, "Treino_min")) > 3000
            THEN << <<30, TREINO>> >> ELSE <<>>)
     \o (IF Sum(Coluna(d, "Organizacao")) >= 30
            THEN << <<40, ORGANIZADO>> >> ELSE <<>>)

calcular_pontos_recompensa_with_volume(d) ==
    LET p == Premios(d)
    IN  [pontos |-> Sum([i \in 1..Len(p) |-> p[i][1]])
                        + Sum(Coluna(d, "Estudo_min")) \div 30
                        + Sum(Coluna(d, "Treino_min")) \div 30
                        + Sum(Coluna(d, "Score_diario")) \div 10,
         conquistas |-> [i \in 1..Len(p) |-> p[i][2]]]

calcular_pontos_recompensa(d) ==
    LET p == Premios(d)
    IN  [pontos |-> Sum([i \in 1..Len(p) |-> p[i][1]]),
         conquistas |-> [i \in 1..Len(p) |-> p[i][2]]]

-----------------------------------------------------------------------------
(* previsao_tendencia *)

FORTE_POS == "Tendencia positiva forte"
LEVE_POS == "Tendencia positiva leve"
FORTE_NEG == "Tendencia negativa forte"
LEVE_NEG == "Tendencia negativa leve"
ESTAVEL == "Tendencia estavel"
COLETANDO == "Coletando mais dados..."

\* np.polyfit(x, y, 1)[0] with x = 0..len(y)-1: the least-squares slope, as the
\* exact fraction (n*Sxy - Sx*Sy) / (n*Sxx - Sx*Sx); the rounding of the
\* floating-point fit is not modelled.  The scores of a loaded frame are never
\* NaN (fillna), so the fit does not raise and the except branch is not taken.
polyfit_slope(y) ==
    LET n == Len(y)
        Sx == Sum([i \in 1..n |-> i - 1])
        Sy == Sum(y)
        Sxy == Sum([i \in 1..n |-> (i - 1) * y[i]])
        Sxx == Sum([i \in 1..n |-> (i - 1) * (i - 1)])
    IN  [n |-> n * Sxy - Sx * Sy, d |-> n * Sxx - Sx * Sx]

Classifica_inclusive(z) ==
    IF z.n >= 2 * z.d THEN FORTE_POS
    ELSE IF 2 * z.n > z.d THEN LEVE_POS
    ELSE IF z.n < -2 * z.d THEN FORTE_NEG
    ELSE IF 2 * z.n < -z.d THEN LEVE_NEG
    ELSE ESTAVEL

\* the if/elif chain on tendencia = z[0]; z.d > 0
Classifica(z) ==
    IF z.n > 2 * z.d THEN FORTE_POS
    ELSE IF 2 * z.n > z.d THEN LEVE_POS
    ELSE IF z.n < -2 * z.d THEN FORTE_NEG
    ELSE IF 2 * z.n < -z.d THEN LEVE_NEG
    ELSE ESTAVEL

previsao_tendencia(d) ==
    IF Len(d) >= 5
    THEN Classifica(polyfit_slope(Coluna(tail(d, 5), "Score_diario")))
    ELSE COLETANDO

-----------------------------------------------------------------------------
(* analisar_fatores_influencia *)

features ==
    <<"Estudo_min", "Sono_h", "Treino_min", "Bem_estar", "Nutricao", "Motivacao",
      "Relacoes", "Organizacao">>

Varia(s) == \E i \in 1..Len(s) : s[i] # s[1]

\* None (<<>>) or the ranking; of the ranking the model keeps which factors have
\* a coefficient that is not NaN (the factor and the score both vary), not the
\* coefficients nor their order
analisar_fatores_influencia(d) ==
    IF Len(d) > 10
    THEN << SelectSeq(features,
                LAMBDA f : Varia(Coluna(d, f)) /\ Varia(Coluna(d, "Score_diario"))) >>
    ELSE <<>>

-----------------------------------------------------------------------------
(* verificar_metas *)

\* one entry of resultados; real is a fraction
Resultado(meta, real) ==
    [meta |-> meta, real |-> real, atingido |-> real.n >= meta * real.d]

verificar_metas(d, m) ==
    LET ultima_semana == tail(d, 7)
    IN  [estudo |-> Resultado(m.estudo, mean(Coluna(ultima_semana, "Estudo_min"))),
         treino |-> Resultado(m.treino, mean(Coluna(ultima_semana, "Treino_min"))),
         sono |-> Resultado(m.sono, mean(Coluna(ultima_semana, "Sono_h"))),
         score |-> Resultado(m.score, mean(Coluna(ultima_semana, "Score_diario"))),
         organizacao |->
            Resultado(m.organizacao,
                      [n |-> Sum(Coluna(ultima_semana, "Organizacao")), d |-> 1])]

\* tab 3 draws each goal with st.progress(min(progresso/100, 1)), which raises
\* on a value below 0: a negative mean ends the run before the statistics
progress_raises(res) == \E k \in DOMAIN res : res[k].real.n < 0

-----------------------------------------------------------------------------
(* main(): the period filter and the streak of tab 3 *)

Periodos == {"Ultimos 7 dias", "Ultimos 30 dias", "Ultimos 90 dias", "Todo o periodo"}

Dias(per) ==
    CASE per = "Ultimos 7 dias" -> 7
      [] per = "Ultimos 30 dias" -> 30
      [] per = "Ultimos 90 dias" -> 90

\* df = df_full[df_full['Data'] > cutoff]; a NaT compares False
Filtrar(df_full, per) ==
    IF df_full = <<>> \/ per = "Todo o periodo" THEN df_full
    ELSE SelectSeq(df_full, LAMBDA r : r.Data # NaT /\ r.Data > Hoje - Dias(per))

RECURSIVE Sequencia_no_break(_, _, _)
Sequencia_no_break(d, meta, i) ==
    IF i = 0 THEN 0
    ELSE (IF d[i].Score_diario >= meta THEN 1 ELSE 0) + Sequencia_no_break(d, meta, i - 1)

\* for i in range(len(df)-1, -1, -1): count until the first score below the goal
RECURSIVE Sequencia(_, _, _)
Sequencia(d, meta, i) ==
    IF i = 0 THEN 0
    ELSE IF d[i].Score_diario >= meta THEN 1 + Sequencia(d, meta, i - 1)
    ELSE 0

calcular_sequencia_no_break(d, m) == Sequencia_no_break(d, m.score, Len(d))

calcular_sequencia(d, m) == Sequencia(d, m.score, Len(d))

\* carregar_metas: the defaults
MetasPadrao ==
    [estudo |-> 240, treino |-> 60, sono |-> 8, score |-> 70, nutricao |-> 7,
     motivacao |-> 7, organizacao |-> 5]

-----------------------------------------------------------------------------
(* Inputs *)

\* the dict main() builds from the form widgets
Entry(d, est, org, tr, be, so, nu, mo, re) ==
    [Data |-> d, Estudo_min |-> est, Organizacao |-> org, Treino_min |-> tr,
     Bem_estar |-> be, Sono_h |-> so, Nutricao |-> nu, Motivacao |-> mo,
     Relacoes |-> re]

\* entries of the application specification: the form's defaults today (score 76),
\* a minimal day outside the 7-day window (score 8), a full day a month ago (100)
FormEntries ==
    { Entry(Hoje, 60, 1, 45, 7, 7, 7, 7, 7),
      Entry(Hoje - 10, 0, 0, 0, 1, 7, 1, 1, 1),
      Entry(Hoje - 40, 1440, 1, 300, 10, 8, 10, 10, 10) }

\* every position of the four sliders and of the toggle, other widgets at default
ScoreEntries ==
    { Entry(Hoje, 60, org, 45, be, 7, nu, mo, re) :
        org \in 0..1, be \in SliderMin..SliderMax, nu \in SliderMin..SliderMax,
        mo \in SliderMin..SliderMax, re \in SliderMin..SliderMax }

\* entries of the series specification: a full day at the goal (score 70) and a
\* lighter day just below it (score 68)
SeriesEntries ==
    { Entry(Hoje, 1440, 1, 300, 7, 7, 7, 7, 4),
      Entry(Hoje, 60, 1, 45, 7, 7, 7, 6, 4) }

\* a stored row of day d with score s that no save of this version wrote
\* (an earlier version of the formula, or an edit of the sheet)
StoredRow(d, s) ==
    << DateStr(d), Num(60), Num(0), Num(45), Num(1), Num(7), Num(1), Num(1),
       Num(1), Num(s), Txt >>

\* the goals the goal form is submitted with
MetasForm == { MetasPadrao, [MetasPadrao EXCEPT !.score = 76] }

SaveResults == {"ok", "connection error", "append error"}

-----------------------------------------------------------------------------
(* main(): one run of the script *)

\* what the run renders from the session's frame df_full.  The filtered frame
\* is st.session_state.df itself when no mask is applied, so what
\* calcular_metricas_avancadas leaves in its argument is what the session keeps.
\* M is the result of the one call of calcular_metricas_avancadas.
Show(df_full, per, m) ==
    \E M \in {calcular_metricas_avancadas(Filtrar(df_full, per))} :
        LET pr == calcular_pontos_recompensa(df_full)
            same == df_full = <<>> \/ per = "Todo o periodo"
            d == M.df
        IN  /\ pontos' = pr.pontos
            /\ conquistas' = pr.conquistas
            /\ session_df' = (IF same THEN d ELSE df_full)
            /\ df' = d
            /\ df_analise' = M.df_analise
            /\ matriz_correlacao' = M.matriz_correlacao
            /\ Media_Movel_7' = [i \in 1..Len(d) |-> M.df_analise[i].Media_Movel_7]
            /\ importancia' = (IF Len(d) > 0 THEN analisar_fatores_influencia(d) ELSE <<>>)
            /\ tendencia' = (IF Len(d) > 0 THEN <<previsao_tendencia(d)>> ELSE <<>>)
            /\ resultados' = (IF Len(d) > 0 THEN <<verificar_metas(d, m)>> ELSE <<>>)
            /\ sequencia_atual' = (IF Len(d) > 0 /\ ~progress_raises(verificar_metas(d, m))
                                    THEN <<calcular_sequencia(d, m)>> ELSE <<>>)

\* a run with no form submitted: the period is the selectbox's value
Run(per, ok) ==
    \E L \in {IF has_df THEN [df |-> session_df, cache |-> cache]
                ELSE load_data(cache, sheet, ok)} :
        /\ has_df' = TRUE
        /\ cache' = L.cache
        /\ periodo' = per
        /\ salvo' = <<>>
        /\ Show(L.df, per, metas)
        /\ UNCHANGED <<sheet, metas, row>>

\* save_entry_google(entry) and what main() does with its result: on True
\* st.cache_data.clear(), load_data() and st.rerun()
Save(per, e, res, ok) ==
    /\ periodo' = per
    /\ salvo' = <<res = "ok">>
    /\ IF res = "ok"
       THEN LET sh == append_row(sheet, BuildRow(e))
            IN  \E d \in {load_data_body(sh, ok)} :
                    /\ sheet' = sh
                    /\ row' = <<BuildRow(e)>>
                    /\ cache' = [valid |-> TRUE, df |-> d]
                    /\ Show(d, per, metas)
       ELSE /\ row' = (IF res = "append error" THEN <<BuildRow(e)>> ELSE row)
            /\ Show(session_df, per, metas)
            /\ UNCHANGED <<sheet, cache>>
    /\ UNCHANGED <<has_df, metas>>

\* a run with the entry form submitted: the period drawn from P, the entry from E,
\* the outcome of the save from R and that of the reload from O; the sheet holds
\* at most lim rows
SubmitEntry(P, E, R, O, lim) ==
    /\ has_df
    /\ Len(sheet.rows) < lim
    /\ \E per \in P, e \in E, res \in R, ok \in O : Save(per, e, res, ok)

\* a run with the goal form submitted
SubmitMetas(per, m) ==
    /\ has_df
    /\ metas' = m
    /\ periodo' = per
    /\ salvo' = <<>>
    /\ Show(session_df, per, m)
    /\ UNCHANGED <<sheet, cache, has_df, row>>

\* the ttl of the cache entry elapses
CacheExpire ==
    /\ cache.valid
    /\ cache' = [valid |-> FALSE, df |-> <<>>]
    /\ UNCHANGED <<sheet, has_df, session_df, metas, periodo, row, salvo, pontos,
                   conquistas, df, df_analise, matriz_correlacao, Media_Movel_7,
                   importancia, tendencia, resultados, sequencia_atual>>

\* the page is opened anew: an empty st.session_state, the cache is shared
NewSession ==
    /\ has_df
    /\ has_df' = FALSE
    /\ session_df' = <<>>
    /\ metas' = MetasPadrao
    /\ periodo' = "Ultimos 7 dias"
    /\ salvo' = <<>>
    /\ pontos' = 0
    /\ conquistas' = <<>>
    /\ df' = <<>>
    /\ df_analise' = <<>>
    /\ matriz_correlacao' = <<>>
    /\ Media_Movel_7' = <<>>
    /\ importancia' = <<>>
    /\ tendencia' = <<>>
    /\ resultados' = <<>>
    /\ sequencia_atual' = <<>>
    /\ UNCHANGED <<sheet, cache, row>>

-----------------------------------------------------------------------------
(* Specifications *)

InitSheet(header, rows) ==
    /\ sheet = [header |-> header, rows |-> rows]
    /\ cache = [valid |-> FALSE, df |-> <<>>]
    /\ has_df = FALSE
    /\ session_df = <<>>
    /\ metas = MetasPadrao
    /\ periodo = "Ultimos 7 dias"
    /\ row = <<>>
    /\ salvo = <<>>
    /\ pontos = 0
    /\ conquistas = <<>>
    /\ df = <<>>
    /\ df_analise = <<>>
    /\ matriz_correlacao = <<>>
    /\ Media_Movel_7 = <<>>
    /\ importancia = <<>>
    /\ tendencia = <<>>
    /\ resultados = <<>>
    /\ sequencia_atual = <<>>

InitWith(rows) == InitSheet(cols, rows)

\* the application: an empty sheet, or one holding a row of an earlier version
Init == \E rows \in {<<>>, <<StoredRow(Hoje - 3, 18)>>} : InitWith(rows)

Next ==
    \/ \E per \in Periodos, ok \in BOOLEAN : Run(per, ok)
    \/ SubmitEntry(Periodos, FormEntries, SaveResults, BOOLEAN, MaxRows)
    \/ \E per \in Periodos, m \in MetasForm : SubmitMetas(per, m)
    \/ CacheExpire
    \/ NewSession

Spec == Init /\ [][Next]_vars

\* the score of every entry the form can submit
InitScore == InitWith(<<>>)

NextScore ==
    \/ Run("Todo o periodo", TRUE)
    \/ SubmitEntry({"Todo o periodo"}, ScoreEntries, {"ok"}, {TRUE}, 1)

SpecScore == InitScore /\ [][NextScore]_vars

-----------------------------------------------------------------------------
(* Stored histories: one row a day, the last one today *)

SeqsUpTo(S, n) == UNION {[1..k -> S] : k \in 0..n}

\* rows this version saved on the days before
SavedHistory(es) ==
    [i \in 1..Len(es) |-> BuildRow([es[i] EXCEPT !.Data = Hoje - (Len(es) - i)])]

\* rows carrying the scores ss
StoredHistory(ss) ==
    [i \in 1..Len(ss) |-> StoredRow(Hoje - (Len(ss) - i), ss[i])]

TailScores == {50, 60, 70, 75, 90}

\* the series of the documented examples
Examples ==
    { <<50, 60, 70, 80, 90>>, <<60, 70, 80>>, <<80, 75, 60, 90, 95>>,
      <<80, 80, 80, 80, 80>> }

\* the periods that differ on a history of consecutive days
SeriesPeriodos == {"Ultimos 7 dias", "Todo o periodo"}

\* the series: a stored history of full and light days, then more entries
InitSeries ==
    \/ \E es \in SeqsUpTo(SeriesEntries, MaxHist) : InitWith(SavedHistory(es))
    \/ \E ss \in Examples : InitWith(StoredHistory(ss))

NextSeries ==
    \/ \E per \in SeriesPeriodos : Run(per, TRUE)
    \/ SubmitEntry(SeriesPeriodos, SeriesEntries, {"ok"}, {TRUE}, MaxHist + 1)

SpecSeries == InitSeries /\ [][NextSeries]_vars

\* the last records: a short stored history of varied scores
InitTail ==
    \E ss \in SeqsUpTo(TailScores, MaxTail) \cup Examples : InitWith(StoredHistory(ss))

NextTail ==
    \/ Run("Todo o periodo", TRUE)
    \/ \E m \in MetasForm : SubmitMetas("Todo o periodo", m)

SpecTail == InitTail /\ [][NextTail]_vars

\* the scores of two stored weeks: six days at a and one at b, then six at c
\* and one at d; for extra < 0 the first -extra days are missing, for extra > 0
\* that many earlier days at a come before the two weeks
Fortnight(a, b, c, d, extra) ==
    LET w == <<a, a, a, a, a, a, b, c, c, c, c, c, c, d>>
    IN  IF extra <= 0 THEN SubSeq(w, 1 - extra, 14)
        ELSE [i \in 1..extra |-> a] \o w

\* the weeks compared by the improvement achievement: equal weeks, a rise of
\* exactly 5 a day, a little less and a little more
Fortnights ==
    { Fortnight(60, b, c, d, extra) :
        b \in {60, 62}, c \in {65, 66}, d \in {63, 65, 67}, extra \in -1..(MaxWeeks - 14) }

InitImprove == \E ss \in Fortnights : InitWith(StoredHistory(ss))

NextImprove ==
    \/ \E per \in SeriesPeriodos : Run(per, TRUE)
    \/ SubmitEntry(SeriesPeriodos, SeriesEntries, {"ok"}, {TRUE}, MaxWeeks + 1)

SpecImprove == InitImprove /\ [][NextImprove]_vars

-----------------------------------------------------------------------------
(* Sheets that other hands have written: an older or a partial header, cells *)
(* that are no dates or no numbers, negative numbers                         *)

\* the header of the sheets that recorded the study time in hours
HeaderOld == [i \in 1..Len(cols) |-> IF cols[i] = "Estudo_min" THEN "Estudo_h" ELSE cols[i]]

\* a sheet that kept the hours column beside the minutes column
HeaderBoth == Append(cols, "Estudo_h")

\* a sheet without the exercise column
HeaderNoTreino == SelectSeq(cols, LAMBDA c : c # "Treino_min")

Headers == {cols, HeaderOld, HeaderBoth, HeaderNoTreino}

\* a row under header h: its date cell, its study cell (the hours column reads 1
\* where the sheet has both columns) and its score cell
RawRow(h, data, estudo, score) ==
    [i \in 1..Len(h) |->
        CASE h[i] = "Data" -> data
          [] h[i] = "Estudo_min" -> estudo
          [] h[i] = "Estudo_h" -> (IF InHeader(h, "Estudo_min") THEN Num(1) ELSE estudo)
          [] h[i] = "Score_diario" -> score
          [] h[i] = "Observacoes" -> Txt
          [] OTHER -> Num(1)]

RawDatas == {DateStr(Hoje), DateStr(Hoje - 1), Txt}

RawEstudos == {Num(2), Num(-30), Txt}

InitRaw ==
    \E h \in Headers :
        \E cs \in SeqsUpTo(RawDatas \X RawEstudos, MaxRaw) :
            InitSheet(h, [k \in 1..Len(cs) |-> RawRow(h, cs[k][1], cs[k][2], Num(50))])

NextRaw ==
    \/ \E per \in SeriesPeriodos : Run(per, TRUE)
    \/ SubmitEntry(SeriesPeriodos, {Entry(Hoje, 60, 1, 45, 7, 7, 7, 7, 7)}, {"ok"},
                   {TRUE}, MaxRaw + 1)

SpecRaw == InitRaw /\ [][NextRaw]_vars

-----------------------------------------------------------------------------
(* Long histories with a day recorded twice *)

\* n rows on consecutive days, the k-th day recorded twice in a row (k = 0:
\* no day twice); the score of a row is its position in the sheet
Twice(n, k) ==
    [i \in 1..n |->
        StoredRow(Hoje - n + i + (IF k > 0 /\ i <= k THEN 1 ELSE 0), i)]

InitSort ==
    \E n \in (MaxSort - 2)..MaxSort : \E k \in 0..(n - 1) : InitWith(Twice(n, k))

NextSort ==
    \/ \E per \in SeriesPeriodos : Run(per, TRUE)
    \/ SubmitEntry(SeriesPeriodos, FormEntries, {"ok"}, {TRUE}, MaxSort + 1)

SpecSort == InitSort /\ [][NextSort]_vars

-----------------------------------------------------------------------------
(* Claims *)

\* the fields of the row last built by save_entry_google
SavedScore == row[1][10].v
SavedOrg == row[1][3].v
SavedSubj == <<row[1][5].v, row[1][7].v, row[1][8].v, row[1][9].v>>

Valid(x) == x \in SliderMin..SliderMax

\* C1: for wellbeing, nutrition, motivation and relationships in 1..10 and either
\* value of adhered_to_plan, the score computed by the save is in 0..100.
C1_ScoreInRange ==
    (row # <<>> /\ \A i \in 1..4 : Valid(SavedSubj[i]))
        => (0 <= SavedScore /\ SavedScore <= 100)

\* C1 witness: a save of a valid entry that reaches the upper end of the range
C1_Witness == row # <<>> /\ SavedSubj = <<10, 10, 10, 10>> /\ SavedScore = 100

\* C2: the score is min(100, 2 * (the four inputs + bonus)), bonus 10 with
\* adherence and 0 without: four 7s with adherence give 76, four 10s with
\* adherence give 100, four 1s without adherence give 8.
C2_ScoreFormula ==
    row # <<>> =>
        LET bonus == IF SavedOrg = 1 THEN 10 ELSE 0
            raw == 2 * (SavedSubj[1] + SavedSubj[2] + SavedSubj[3] + SavedSubj[4] + bonus)
        IN  /\ SavedScore = (IF raw > 100 THEN 100 ELSE raw)
            /\ (SavedSubj = <<7, 7, 7, 7>> /\ SavedOrg = 1) => SavedScore = 76
            /\ (SavedSubj = <<10, 10, 10, 10>> /\ SavedOrg = 1) => SavedScore = 100
            /\ (SavedSubj = <<1, 1, 1, 1>> /\ SavedOrg = 0) => SavedScore = 8

\* C2 witness: the floor case has been saved
C2_Witness == row # <<>> /\ SavedSubj = <<1, 1, 1, 1>> /\ SavedOrg = 0 /\ SavedScore = 8

\* the entry of the saved row with one input replaced
SavedEntry ==
    Entry(row[1][1].v, row[1][2].v, row[1][3].v, row[1][4].v, row[1][5].v,
          row[1][6].v, row[1][7].v, row[1][8].v, row[1][9].v)

Sliders == {"Bem_estar", "Nutricao", "Motivacao", "Relacoes"}

\* C3: raising one of wellbeing, nutrition, motivation, relationships or
\* adhered_to_plan, the others fixed, never lowers the score.
C3_ScoreMonotonic ==
    row # <<>> =>
        /\ \A f \in Sliders : \A x \in SliderMin..SliderMax :
                x > SavedEntry[f] =>
                    score_auto([SavedEntry EXCEPT ![f] = x]) >= SavedScore
        /\ SavedOrg = 0 =>
                score_auto([SavedEntry EXCEPT !.Organizacao = 1]) >= SavedScore

\* C3 witness: a saved entry without adherence whose inputs can all be raised
C3_Witness == row # <<>> /\ SavedOrg = 0 /\ SavedSubj = <<5, 5, 5, 5>>

\* C4: the score of every record the analytics read is the calculator's result
\* for that record's own fields.
C4_ScoreIsComputed ==
    \A i \in 1..Len(session_df) :
        session_df[i].Score_diario = score_auto(session_df[i])


Range(f) == {f[i] : i \in DOMAIN f}

Scores(d) == [i \in 1..Len(d) |-> d[i].Score_diario]

\* the sum of f[lo..hi]
RECURSIVE SumFromTo(_, _, _)
SumFromTo(f, lo, hi) == IF lo > hi THEN 0 ELSE f[hi] + SumFromTo(f, lo, hi - 1)

\* C5: appending a record to the series never lowers the points nor removes an
\* achievement.
C5_PointsNeverDecrease ==
    [][(/\ has_df
        /\ Len(session_df') = Len(session_df) + 1
        /\ SubSeq(session_df', 1, Len(session_df)) = session_df)
            => (pontos' >= pontos /\ Range(conquistas) \subseteq Range(conquistas'))]_vars

Bonus(c) ==
    CASE c = CONSISTENCIA -> 100
      [] c = MELHORIA -> 50
      [] c = ESTUDO -> 50
      [] c = TREINO -> 30
      [] c = ORGANIZADO -> 40

BonusSum == Sum([i \in 1..Len(conquistas) |-> Bonus(conquistas[i])])

\* C6 as stated: the points are floor(study minutes / 30) + floor(exercise
\* minutes / 30) + floor(sum of scores / 10) + the bonuses of the achievements.
C6_XpFormula ==
    has_df =>
        pontos = SumFromTo(Coluna(session_df, "Estudo_min"), 1, Len(session_df)) \div 30
                    + SumFromTo(Coluna(session_df, "Treino_min"), 1, Len(session_df)) \div 30
                    + SumFromTo(Scores(session_df), 1, Len(session_df)) \div 10
                    + BonusSum

\* C6 amended: the points are the sum of the bonuses of the achievements earned
\* and nothing else; study, exercise and score volume add no points.
C6_PointsAreBonuses == has_df => pontos = BonusSum

\* C6 witness: a series with study volume and two achievements
C6_Witness ==
    /\ has_df
    /\ SumFromTo(Coluna(session_df, "Estudo_min"), 1, Len(session_df)) > 10000
    /\ conquistas = <<CONSISTENCIA, ESTUDO>>
    /\ pontos = 150

\* 10 times the least-squares slope of five values against 0..4
Slope10(y) == 2 * y[5] + y[4] - y[2] - 2 * y[1]

Last5 == Scores(SubSeq(df, Len(df) - 4, Len(df)))

C8_RollingAverage ==
    has_df =>
        /\ Len(Media_Movel_7) = Len(df)
        /\ \A k \in 1..Len(df) :
            LET lo == IF k - 6 > 1 THEN k - 6 ELSE 1
            IN  /\ Media_Movel_7[k].d > 0
                /\ Media_Movel_7[k].n * (k - lo + 1)
                        = SumFromTo(Scores(df), lo, k) * Media_Movel_7[k].d
        /\ Scores(df) = <<60, 70, 80>> => Media_Movel_7[3].n = 70 * Media_Movel_7[3].d

\* C8 witness: eight records, the eighth window leaving out a different first score
C8_Witness ==
    /\ has_df
    /\ Len(df) = 8
    /\ df[1].Score_diario # df[8].Score_diario
    /\ Len(Media_Movel_7) = 8

\* C9: the streak is the number k of latest records that all meet the score goal,
\* the record before them (if any) failing it: 0 when the latest fails, the
\* length when all meet it, 2 for [80,75,60,90,95] with goal 70.
C9_Streak ==
    (has_df /\ Len(df) > 0) =>
        LET n == Len(df)
            meets(i) == df[i].Score_diario >= metas.score
        IN  /\ \E k \in 0..n :
                /\ sequencia_atual = <<k>>
                /\ \A i \in (n - k + 1)..n : meets(i)
                /\ k < n => ~meets(n - k)
            /\ ~meets(n) => sequencia_atual = <<0>>
            /\ (\A i \in 1..n : meets(i)) => sequencia_atual = <<n>>
            /\ (Scores(df) = <<80, 75, 60, 90, 95>> /\ metas.score = 70)
                    => sequencia_atual = <<2>>

\* C9 witness: the documented series under the default goal
C9_Witness ==
    /\ has_df
    /\ Scores(df) = <<80, 75, 60, 90, 95>>
    /\ metas.score = 70
    /\ sequencia_atual = <<2>>

\* C10: the consistency achievement (bonus 100) is awarded exactly when the
\* series has at least 7 records and each of the last 7 has a score >= 70.
C10_Consistency ==
    has_df =>
        LET n == Len(session_df)
            awarded == CONSISTENCIA \in Range(conquistas)
        IN  /\ awarded <=> (n >= 7 /\ \A i \in (n - 6)..n : session_df[i].Score_diario >= 70)
            /\ awarded => pontos >= 100
            /\ conquistas = <<CONSISTENCIA>> => pontos = 100

\* C10 witness: awarded on scores of exactly 70
C10_Witness ==
    /\ has_df
    /\ Len(session_df) >= 7
    /\ \A i \in 1..Len(session_df) : session_df[i].Score_diario = 70
    /\ CONSISTENCIA \in Range(conquistas)

\* C11 as stated: the improvement achievement (bonus 50) is awarded exactly when
\* the series has at least 14 records and the mean score of the last 7 exceeds
\* the mean of the 7 before them by more than 5 (sums differing by more than 35).
C11_Improvement ==
    has_df =>
        LET n == Len(session_df)
            s == Scores(session_df)
        IN  MELHORIA \in Range(conquistas)
                <=> (n >= 14 /\ SumFromTo(s, n - 6, n) > SumFromTo(s, n - 13, n - 7) + 35)

\* the metric a goal is compared with
Metrica(g) ==
    CASE g = "estudo" -> "Estudo_min"
      [] g = "treino" -> "Treino_min"
      [] g = "sono" -> "Sono_h"
      [] g = "score" -> "Score_diario"
      [] g = "nutricao" -> "Nutricao"
      [] g = "motivacao" -> "Motivacao"
      [] g = "organizacao" -> "Organizacao"

\* C12 as stated: for each goal of the goal set (study, exercise, sleep, score,
\* nutrition, motivation, organization) goal tracking reports the mean of its
\* metric over the last 7 records (the sum for organization; all records when
\* fewer than 7), and marks it met exactly when that value is >= the target.
C12_GoalTracking ==
    (has_df /\ Len(df) > 0) =>
        /\ Len(resultados) = 1
        /\ \A g \in DOMAIN metas :
            /\ g \in DOMAIN resultados[1]
            /\ LET lo == IF Len(df) > 7 THEN Len(df) - 6 ELSE 1
                   total == SumFromTo(Coluna(df, Metrica(g)), lo, Len(df))
                   count == IF g = "organizacao" THEN 1 ELSE Len(df) - lo + 1
                   r == resultados[1][g]
               IN  /\ r.real.n * count = total * r.real.d
                   /\ r.atingido <=> total >= metas[g] * count

\* C13 as stated: points, achievements, goal results and the current streak are
\* functions of the full history and the goals, not of the filtered window: a run
\* that leaves the stored records, the session's series and the goals as they
\* were (only the selected period may differ) changes none of these outputs.
C13_PeriodIndependent ==
    [][(/\ has_df /\ has_df'
        /\ sheet' = sheet
        /\ session_df' = session_df
        /\ metas' = metas)
            => (/\ pontos' = pontos
                /\ conquistas' = conquistas
                /\ resultados' = resultados
                /\ sequencia_atual' = sequencia_atual)]_vars

\* C14 as stated: after normalization every numeric field of every record is
\* a number >= 0 (a missing column or an unparsable value becomes 0, and no
\* negative value survives).
C14_NumericNonNegative ==
    has_df =>
        \A i \in 1..Len(session_df) : \A c \in Range(numeric_cols) :
            session_df[i][c] >= 0

\* the cells of column c of the sheet, row by row
Celulas(c) ==
    [k \in 1..Len(sheet.rows) |-> sheet.rows[k][HeaderPos(sheet.header, c)]]

\* C15 as stated: the loaded series contains exactly the rows with a parsable
\* date: rows whose date cannot be parsed are dropped, the others are kept.
C15_BadDatesDropped ==
    has_df =>
        /\ \A i \in 1..Len(session_df) : session_df[i].Data # NaT
        /\ Len(session_df)
                = Cardinality({k \in 1..Len(sheet.rows) : Celulas("Data")[k].t = "d"})

\* s and t hold the same values the same number of times
SameBag(s, t) ==
    /\ Len(s) = Len(t)
    /\ \A v \in Range(s) \cup Range(t) : Count(s, v) = Count(t, v)

\* C16 as stated: with the hour-based study field and no minute-based field the
\* study minutes are the old value x 60; with the minute-based field present
\* that field is kept and the old one neither replaces nor duplicates it.
C16_StudyHours ==
    has_df =>
        LET h == sheet.header
            estudo == Coluna(session_df, "Estudo_min")
        IN  /\ (InHeader(h, "Estudo_h") /\ ~InHeader(h, "Estudo_min")) =>
                    SameBag(estudo,
                            [k \in 1..Len(sheet.rows) |->
                                60 * to_numeric(Celulas("Estudo_h")[k])])
            /\ InHeader(h, "Estudo_min") =>
                    SameBag(estudo,
                            [k \in 1..Len(sheet.rows) |->
                                to_numeric(Celulas("Estudo_min")[k])])

\* the rows of the sheet as load_data types them, in the order of the sheet
Normalizadas ==
    LET pos == Positions(Rename(sheet.header))
        data == get_all_records(sheet)
    IN  [k \in 1..Len(data) |-> Typed(pos, data[k])]

\* C17 as stated: after every load the series is ordered by date ascending and
\* records with equal dates keep their insertion order, so the last element is
\* the most recently appended record among those with the latest date.
C17_SortedStable ==
    has_df =>
        /\ Len(session_df) = Len(Normalizadas)
        /\ \A i \in 1..(Len(session_df) - 1) : session_df[i].Data <= session_df[i + 1].Data
        /\ \A dia \in Range(Coluna(Normalizadas, "Data")) :
                SelectSeq(session_df, LAMBDA r : r.Data = dia)
                    = SelectSeq(Normalizadas, LAMBDA r : r.Data = dia)
        /\ session_df # <<>> =>
                LET ultimo == CHOOSE k \in 1..Len(Normalizadas) :
                        \A m \in 1..Len(Normalizadas) :
                            \/ Normalizadas[m].Data < Normalizadas[k].Data
                            \/ Normalizadas[m].Data = Normalizadas[k].Data /\ m <= k
                IN  session_df[Len(session_df)] = Normalizadas[ultimo]

\* C18 as stated: the factor analysis reports no factor exactly when the series
\* it is given has fewer than 10 records; with 10 or more it returns a ranking.
C18_TopFactorSample ==
    (has_df /\ Len(df) > 0) => (importancia = <<>> <=> Len(df) < 10)

\* C19 as stated: at every query, after any interleaving of loads, saves that
\* succeed or fail, load failures and reruns, the series the analytics are
\* computed from is the normalized current content of the store.
C19_ConsistentWithStore ==
    has_df =>
        /\ session_df = load_data_body(sheet, TRUE)
        /\ df = Filtrar(session_df, periodo)

\* the columns of a loaded frame that the analytics read
Colunas == {cols[i] : i \in 1..10}

Derivadas_cols == {"Media_Movel_7", "Tendencia_Score", "Dia_Semana_Num", "Dia_Semana"}

\* C20: calcular_metricas_avancadas never mutates its input: after the call the
\* frame it was given (the filtered frame, which is the session's own frame when
\* no mask is applied) has the records, fields and values it had and none of the
\* derived columns, which are found on the returned copy only; the empty series
\* is returned as it is.
C20_InputNotMutated ==
    has_df =>
        /\ df = Filtrar(session_df, periodo)
        /\ \A i \in 1..Len(df) : DOMAIN df[i] = Colunas
        /\ \A i \in 1..Len(session_df) : DOMAIN session_df[i] = Colunas
        /\ Len(df_analise) = Len(df)
        /\ \A i \in 1..Len(df) :
            /\ DOMAIN df_analise[i] = Colunas \cup Derivadas_cols
            /\ \A c \in Colunas : df_analise[i][c] = df[i][c]
        /\ df = <<>> => (df_analise = <<>> /\ matriz_correlacao = <<>>)

\* C20 witness: the function was given the session's own frame, two records
\* long, and returned a copy carrying the derived columns
C20_Witness ==
    /\ has_df
    /\ periodo = "Todo o periodo"
    /\ Len(session_df) = 2
    /\ df = session_df
    /\ df_analise[2].Tendencia_Score # <<>>
    /\ matriz_correlacao # <<>>


\* C21 as stated: a save that fails returns False, appends no row to the sheet
\* and leaves the session's series and the cache entry as they were; the
\* session's series is replaced only by a save that returns True, which
\* appends one row, caches a fresh load and puts it in the session, and that
\* load holds exactly one record more than the sheet held before the save.
\* (The expiry of the cache entry is no run of the script and is left aside.)
C21_FailedSaveHarmless ==
    [][~CacheExpire =>
        /\ salvo' \in {<<>>, <<TRUE>>, <<FALSE>>}
        /\ salvo' = <<FALSE>> =>
                /\ sheet' = sheet
                /\ session_df' = session_df
                /\ cache' = cache
        /\ (has_df /\ has_df' /\ session_df' # session_df) => salvo' = <<TRUE>>
        /\ salvo' = <<TRUE>> =>
                /\ Len(sheet'.rows) = Len(sheet.rows) + 1
                /\ cache' = [valid |-> TRUE, df |-> session_df']
                /\ Len(session_df') = Len(sheet.rows) + 1]_vars

=============================================================================
